---- MODULE Spec2Model ----
(***************************************************************************)
(* Verification model of the vizier configuration layer:                   *)
(*   - the Namespace codec        (vizier/pyvizier/shared/common.py)       *)
(*   - the Metadata store         (vizier/pyvizier/shared/common.py)       *)
(*   - the trial-parameter resolver (vizier/pyvizier/oss/study_config.py)  *)
(* Strings that the code inspects character by character are modelled as   *)
(* sequences of one-character strings.                                     *)
(***************************************************************************)
EXTENDS Integers, Sequences, FiniteSets, TLC

VARIABLES
  ns_pc,      \* codec scenario: position ("new", "made", "encoded", "decoded")
  ns_arg,     \* codec scenario: the argument given to Namespace(...)
  ns_val,     \* codec scenario: Namespace._as_tuple of the constructed object
  ns_enc,     \* codec scenario: repr(namespace)
  ns_dec,     \* codec scenario: Namespace(repr(namespace))._as_tuple
  stores,     \* Metadata._stores objects: each an insertion-ordered
              \* Namespace -> dict-object table
  heap,       \* the _MetadataSingleNameSpace objects, by object id
  views,      \* the Metadata objects made so far: (_stores, _namespace, _store)
  lastOp,     \* the last Metadata call: name, receiver, argument, result
  nOps,       \* number of Metadata calls made so far
  search_space,          \* resolver: the ParameterConfigs of the search space
  pytrial,               \* resolver: pytrial.parameters, name -> ParameterValue
  res_pc,                \* resolver: position in _pytrial_parameters
  parameter_configs,     \* resolver: the queue of (parent_name, config)
  remaining_parameters,  \* resolver: the copy of pytrial.parameters
  parameter_values,      \* resolver: name -> value as stored
  external_values,       \* resolver: name -> external value, in insertion order
  trial_final_values,    \* resolver: the mapping returned (empty until
                         \* line 362 is reached)
  popped,                \* resolver: history of line 298, the entries popped
                         \* so far and whether each resolved its name
  listed_trials,         \* GetTrials: the trials ListTrials returns, in order
  gt_args,               \* GetTrials: the keyword arguments of the call
  gt_pc,                 \* GetTrials: "called", "returned" or ValueError
  filtered_pytrials      \* GetTrials: the list returned

vars == <<ns_pc, ns_arg, ns_val, ns_enc, ns_dec,
          stores, heap, views, lastOp, nOps,
          search_space, pytrial, res_pc, parameter_configs,
          remaining_parameters, parameter_values, external_values,
          trial_final_values, popped,
          listed_trials, gt_args, gt_pc, filtered_pytrials>>

None == "None"

(***************************************************************************)
(* Bounds of the codec scenario.                                           *)
(***************************************************************************)
MaxCompLen == 2   \* characters per namespace component
MaxComps == 2     \* components per namespace given as a tuple
MaxStrLen == 3    \* characters per encoded string given as a str

Chars == {"a", ":", "\\"}

SeqsUpTo(S, n) == UNION {[1..k -> S] : k \in 0..n}

CompStrings == SeqsUpTo(Chars, MaxCompLen)
TupleArgs == SeqsUpTo(CompStrings, MaxComps)
\* The strings of the docstring of Namespace and of its tests.
StrExamples ==
  {<<"a", ":", "b">>, <<"a", "\\", ":", "b">>,
   <<"a", "\\", ":", "b", "\\", ":", "c">>}

StrArgs == SeqsUpTo(Chars, MaxStrLen) \cup StrExamples

(***************************************************************************)
(* Python string helpers used by the codec.                                *)
(***************************************************************************)
\* str.split(':'): cut at every colon, keeping empty fragments.
RECURSIVE split(_)
split(s) ==
  IF \A i \in 1..Len(s) : s[i] # ":"
  THEN <<s>>
  ELSE LET i == CHOOSE j \in 1..Len(s) :
                  s[j] = ":" /\ \A h \in 1..(j - 1) : s[h] # ":"
       IN  <<SubSeq(s, 1, i - 1)>> \o split(SubSeq(s, i + 1, Len(s)))

\* A bug lstrip could have: one leading colon is removed, not all.
lstrip_once(s) ==
  IF s # <<>> /\ s[1] = ":" THEN Tail(s) ELSE s

\* str.lstrip(':')
RECURSIVE lstrip(_)
lstrip(s) ==
  IF s # <<>> /\ s[1] = ":" THEN lstrip(Tail(s)) ELSE s

\* ':'.join(parts)
RECURSIVE join(_)
join(parts) ==
  IF parts = <<>> THEN <<>>
  ELSE IF Len(parts) = 1 THEN parts[1]
  ELSE parts[1] \o <<":">> \o join(Tail(parts))

\* c.translate(_ns_repr_table): every ':' becomes '\:'.
RECURSIVE translate(_)
translate(c) ==
  IF c = <<>> THEN <<>>
  ELSE (IF c[1] = ":" THEN <<"\\", ":">> ELSE <<c[1]>>) \o translate(Tail(c))

\* A bug _parse could have: the escape character is kept.
ButLast_kept(s) == s

ButLast(s) == SubSeq(s, 1, Len(s) - 1)
EndsInEscape(frag) == frag # <<>> /\ frag[Len(frag)] = "\\"

\* The loop of _parse over the fragments, with its accumulator and flag.
RECURSIVE parse_loop(_, _, _)
parse_loop(fragments, output, joining) ==
  IF fragments = <<>> THEN output
  ELSE LET frag == Head(fragments)
           rest == Tail(fragments)
           n == Len(output)
       IN  IF joining /\ EndsInEscape(frag)
           THEN parse_loop(rest,
                  [output EXCEPT ![n] = @ \o <<":">> \o ButLast(frag)], TRUE)
           ELSE IF joining
           THEN parse_loop(rest,
                  [output EXCEPT ![n] = @ \o <<":">> \o frag], FALSE)
           ELSE IF EndsInEscape(frag)
           THEN parse_loop(rest, Append(output, ButLast(frag)), TRUE)
           ELSE parse_loop(rest, Append(output, frag), FALSE)

_parse(arg) == parse_loop(split(arg), <<>>, FALSE)

\* Namespace.__init__ on a str argument.
NamespaceFromStr(arg) ==
  LET stripped == lstrip(arg)
  IN  IF stripped = <<>> THEN <<>> ELSE _parse(stripped)

\* Namespace.__init__ on an iterable of components: used verbatim.
NamespaceFromTuple(arg) == arg

Namespace__init__(arg) ==
  IF arg.kind = "str" THEN NamespaceFromStr(arg.val)
  ELSE NamespaceFromTuple(arg.val)

\* Namespace.__repr__
Namespace__repr__(as_tuple) ==
  join([i \in 1..Len(as_tuple) |-> translate(as_tuple[i])])

(***************************************************************************)
(* Namespace operations used by Metadata.  A str or Namespace argument is  *)
(* a record [kind |-> "str" or "ns", val |-> ...], the model of the code's *)
(* isinstance tests.                                                       *)
(***************************************************************************)
\* A bug __add__ could have: a str is decoded, as abs_ns does, not appended.
Namespace__add__decoding(as_tuple, other) ==
  IF other.kind = "str"
  THEN NamespaceFromTuple(as_tuple \o NamespaceFromStr(other.val))
  ELSE NamespaceFromTuple(as_tuple \o other.val)

\* Namespace.__add__
Namespace__add__(as_tuple, other) ==
  IF other.kind = "str"
  THEN NamespaceFromTuple(Append(as_tuple, other.val))
  ELSE NamespaceFromTuple(as_tuple \o other.val)

\* Namespace.__getitem__ with the slice [n:]
SliceFrom(as_tuple, n) == SubSeq(as_tuple, n + 1, Len(as_tuple))

\* Namespace.__getitem__ with the slice [:n]
SliceTo(as_tuple, n) ==
  SubSeq(as_tuple, 1, IF n < Len(as_tuple) THEN n ELSE Len(as_tuple))

\* Namespace.startswith
startswith(as_tuple, prefix) ==
  LET ns_prefix == NamespaceFromTuple(prefix)
  IN  SliceTo(as_tuple, Len(ns_prefix)) = ns_prefix

(***************************************************************************)
(* Python dict objects (_MetadataSingleNameSpace): functions from the keys *)
(* present to their values.                                                *)
(***************************************************************************)
MdKeys == {"k1", "k2"}
MdVals == {"v1", "v2"}
KeyError == "KeyError"

EmptyDict == [k \in {} |-> None]
Dicts == UNION {[S -> MdVals] : S \in SUBSET MdKeys}

DictSet(d, k, x) == [j \in DOMAIN d \cup {k} |-> IF j = k THEN x ELSE d[j]]
DictDel(d, k) == [j \in DOMAIN d \ {k} |-> d[j]]
DictUpdate(d, e) ==
  [j \in DOMAIN d \cup DOMAIN e |-> IF j \in DOMAIN e THEN e[j] ELSE d[j]]

(***************************************************************************)
(* Metadata.  A state of the store is a record md = [stores, heap]:        *)
(* md.stores[b] is one _stores defaultdict, a sequence of entries          *)
(* [ns, obj] in insertion order; md.heap[obj] is the dict object obj.      *)
(* A view (a Metadata object) is [stores |-> b, namespace, store |-> obj]. *)
(***************************************************************************)
HasEntry(entries, ns) == \E i \in 1..Len(entries) : entries[i].ns = ns
EntryObj(entries, ns) ==
  entries[CHOOSE i \in 1..Len(entries) : entries[i].ns = ns].obj

\* defaultdict.__getitem__ on md.stores[b]: the dict object at ns, made
\* (empty) and inserted last when ns is missing.
stores_getitem(md, b, ns) ==
  IF HasEntry(md.stores[b], ns)
  THEN [md |-> md, obj |-> EntryObj(md.stores[b], ns)]
  ELSE LET obj == Len(md.heap) + 1
       IN  [md |-> [stores |-> [md.stores EXCEPT
                                  ![b] = Append(@, [ns |-> ns, obj |-> obj])],
                    heap |-> Append(md.heap, EmptyDict)],
            obj |-> obj]

\* Metadata.__init__: a new _stores with the root dict, seeded with args.
Metadata__init__(md, seed) ==
  LET b == Len(md.stores) + 1
      made == stores_getitem(
                [stores |-> Append(md.stores, <<>>), heap |-> md.heap],
                b, NamespaceFromStr(<<>>))
  IN  [md |-> [stores |-> made.md.stores,
               heap |-> [made.md.heap EXCEPT
                           ![made.obj] = DictUpdate(@, seed)]],
       view |-> [stores |-> b, namespace |-> NamespaceFromStr(<<>>),
                 store |-> made.obj]]

\* A bug _copy_core could have: the new view gets its own copy of the dict.
_copy_core_detached(md, self, ns) ==
  LET got == stores_getitem(md, self.stores, ns)
      obj == Len(got.md.heap) + 1
  IN  [md |-> [stores |-> got.md.stores,
               heap |-> Append(got.md.heap, got.md.heap[got.obj])],
       view |-> [stores |-> self.stores, namespace |-> ns, store |-> obj]]

\* Metadata._copy_core: the view shares self._stores; its _store is the
\* dict object that _stores holds at ns.  (The _stores that the inner
\* Metadata() call makes is dropped at once and is not modelled.)
_copy_core(md, self, ns) ==
  LET got == stores_getitem(md, self.stores, ns)
  IN  [md |-> got.md,
       view |-> [stores |-> self.stores, namespace |-> ns, store |-> got.obj]]

\* Metadata.abs_ns
abs_ns(md, self, namespace) ==
  LET ns == IF namespace.kind = "ns" THEN namespace.val
            ELSE Namespace__init__(namespace)
  IN  _copy_core(md, self, ns)

\* Metadata.ns
ns(md, self, components) ==
  LET new_ns == Namespace__add__(self.namespace, components)
  IN  _copy_core(md, self, new_ns)

\* Metadata.__copy__
Metadata__copy__(md, self) == _copy_core(md, self, self.namespace)

\* Metadata.__getitem__: the value, or KeyError
Metadata__getitem__(md, self, key) ==
  IF key \in DOMAIN md.heap[self.store] THEN md.heap[self.store][key]
  ELSE KeyError

\* Metadata.__iter__: the keys of self._store
Metadata__iter__(md, self) == DOMAIN md.heap[self.store]

\* Metadata.__len__
Metadata__len__(md, self) == Cardinality(DOMAIN md.heap[self.store])

\* A bug get could have: a key missing in the view's namespace is looked
\* up in the root namespace.
Metadata_get_inherited(md, self, key, default) ==
  LET root == EntryObj(md.stores[self.stores], NamespaceFromStr(<<>>))
  IN  IF key \in DOMAIN md.heap[self.store] THEN md.heap[self.store][key]
      ELSE IF key \in DOMAIN md.heap[root] THEN md.heap[root][key]
      ELSE default

\* Metadata.get with cls = str: the values of the model are strs, so a
\* value found is returned as it is (line 379-382).
Metadata_get(md, self, key, default) ==
  IF key \in DOMAIN md.heap[self.store] THEN md.heap[self.store][key]
  ELSE default

\* A bug __setitem__ could have: the key is also written to the root dict.
Metadata__setitem__and_root(md, self, key, value) ==
  LET root == EntryObj(md.stores[self.stores], NamespaceFromStr(<<>>))
  IN  [md EXCEPT !.heap[self.store] = DictSet(@, key, value),
                 !.heap[root] = DictSet(@, key, value)]

\* Metadata.__setitem__
Metadata__setitem__(md, self, key, value) ==
  [md EXCEPT !.heap[self.store] = DictSet(@, key, value)]

\* Metadata.__delitem__ (of a key that is present)
Metadata__delitem__(md, self, key) ==
  [md EXCEPT !.heap[self.store] = DictDel(@, key)]

\* Metadata.update
update(md, self, arg) ==
  [md EXCEPT !.heap[self.store] = DictUpdate(@, arg)]

\* A bug namespaces could have: every namespace of _stores is returned,
\* the ones a view was made for but nothing was written to included.
RECURSIVE namespaces_of_unfiltered(_, _)
namespaces_of_unfiltered(md, entries) ==
  IF entries = <<>> THEN <<>>
  ELSE <<Head(entries).ns>> \o namespaces_of_unfiltered(md, Tail(entries))

\* Metadata.namespaces: the namespaces of _stores with a non-empty dict,
\* in the order of _stores.
RECURSIVE namespaces_of(_, _)
namespaces_of(md, entries) ==
  IF entries = <<>> THEN <<>>
  ELSE (IF md.heap[Head(entries).obj] # EmptyDict
        THEN <<Head(entries).ns>> ELSE <<>>)
       \o namespaces_of(md, Tail(entries))

namespaces(md, self) == namespaces_of(md, md.stores[self.stores])

\* A bug subnamespaces could have: the namespaces are compared by length,
\* not by their leading components.
RECURSIVE subnamespaces_of_any_prefix(_, _, _)
subnamespaces_of_any_prefix(md, self, entries) ==
  IF entries = <<>> THEN <<>>
  ELSE (IF md.heap[Head(entries).obj] # EmptyDict
           /\ Len(Head(entries).ns) >= Len(self.namespace)
        THEN <<NamespaceFromTuple(
                 SliceFrom(Head(entries).ns, Len(self.namespace)))>>
        ELSE <<>>)
       \o subnamespaces_of_any_prefix(md, self, Tail(entries))

\* Metadata.subnamespaces: the suffixes below self._namespace of the
\* non-empty namespaces that start with it, in the order of _stores.
RECURSIVE subnamespaces_of(_, _, _)
subnamespaces_of(md, self, entries) ==
  IF entries = <<>> THEN <<>>
  ELSE (IF md.heap[Head(entries).obj] # EmptyDict
           /\ startswith(Head(entries).ns, self.namespace)
        THEN <<NamespaceFromTuple(
                 SliceFrom(Head(entries).ns, Len(self.namespace)))>>
        ELSE <<>>)
       \o subnamespaces_of(md, self, Tail(entries))

subnamespaces(md, self) == subnamespaces_of(md, self, md.stores[self.stores])

\* A bug attach could have: the dict of the namespace is replaced by
\* other's, namespace by namespace, not updated item by item.
attach_step_replacing(md, self, other, rel) ==
  LET target == stores_getitem(md, self.stores,
                  Namespace__add__(self.namespace, [kind |-> "ns", val |-> rel]))
      source == ns(target.md, other, [kind |-> "ns", val |-> rel])
  IN  [source.md EXCEPT
         !.heap[target.obj] = source.md.heap[source.view.store]]

\* One pass of attach's loop: self._stores[self._namespace + ns] is looked
\* up (and made when missing), then other.ns(ns) is built, then the dict
\* is updated from the items of that view.
attach_step(md, self, other, rel) ==
  LET target == stores_getitem(md, self.stores,
                  Namespace__add__(self.namespace, [kind |-> "ns", val |-> rel]))
      source == ns(target.md, other, [kind |-> "ns", val |-> rel])
  IN  [source.md EXCEPT
         !.heap[target.obj] = DictUpdate(@, source.md.heap[source.view.store])]

RECURSIVE attach_loop(_, _, _, _)
attach_loop(md, self, other, todo) ==
  IF todo = <<>> THEN md
  ELSE attach_loop(attach_step(md, self, other, Head(todo)),
                   self, other, Tail(todo))

\* Metadata.attach: other.subnamespaces() is evaluated once, before the loop.
attach(md, self, other) ==
  attach_loop(md, self, other, subnamespaces(md, other))

(***************************************************************************)
(* Codec scenario: construct a Namespace, encode it, decode the encoding.  *)
(***************************************************************************)
CodecStart ==
  /\ ns_pc = "new"
  /\ ns_arg \in ([kind : {"tuple"}, val : TupleArgs]
                   \cup [kind : {"str"}, val : StrArgs])
  /\ ns_val = None
  /\ ns_enc = None
  /\ ns_dec = None

CodecIdle ==
  /\ ns_pc = "idle"
  /\ ns_arg = None
  /\ ns_val = None
  /\ ns_enc = None
  /\ ns_dec = None

resVars == <<search_space, pytrial, res_pc, parameter_configs,
             remaining_parameters, parameter_values, external_values,
             trial_final_values, popped>>

ResIdle ==
  /\ search_space = <<>>
  /\ pytrial = EmptyDict
  /\ res_pc = None
  /\ parameter_configs = <<>>
  /\ remaining_parameters = EmptyDict
  /\ parameter_values = EmptyDict
  /\ external_values = <<>>
  /\ trial_final_values = <<>>
  /\ popped = <<>>

gtVars == <<listed_trials, gt_args, gt_pc, filtered_pytrials>>

GtIdle ==
  /\ listed_trials = <<>>
  /\ gt_args = None
  /\ gt_pc = None
  /\ filtered_pytrials = <<>>

codecVars == <<ns_pc, ns_arg, ns_val, ns_enc, ns_dec>>
mdVars == <<stores, heap, views, lastOp, nOps>>

MdIdle ==
  /\ stores = <<>>
  /\ heap = <<>>
  /\ views = <<>>
  /\ lastOp = None
  /\ nOps = 0

Construct ==
  /\ ns_pc = "new"
  /\ ns_val' = Namespace__init__(ns_arg)
  /\ ns_pc' = "made"
  /\ UNCHANGED <<ns_arg, ns_enc, ns_dec>>
  /\ UNCHANGED <<mdVars, resVars, gtVars>>

Repr ==
  /\ ns_pc = "made"
  /\ ns_enc' = Namespace__repr__(ns_val)
  /\ ns_pc' = "encoded"
  /\ UNCHANGED <<ns_arg, ns_val, ns_dec>>
  /\ UNCHANGED <<mdVars, resVars, gtVars>>

Decode ==
  /\ ns_pc = "encoded"
  /\ ns_dec' = NamespaceFromStr(ns_enc)
  /\ ns_pc' = "decoded"
  /\ UNCHANGED <<ns_arg, ns_val, ns_enc>>
  /\ UNCHANGED <<mdVars, resVars, gtVars>>

CodecNext == Construct \/ Repr \/ Decode

CodecInit == CodecStart /\ MdIdle /\ ResIdle /\ GtIdle

SpecNs == CodecInit /\ [][CodecNext]_vars

(***************************************************************************)
(* Metadata scenario: one Metadata object is constructed; the calls of     *)
(* its interface are then made, in any order, on it and on the views       *)
(* derived from it.                                                        *)
(***************************************************************************)
MaxNsLen == 2   \* components per namespace of a view
MaxOps == 3     \* Metadata calls per behaviour

Comp(c) == <<c>>
MdStrs == {<<"a">>, <<"b">>, <<"a", ":", "b">>, <<"a", "\\", ":", "b">>}
MdNamespaces == {<<>>, <<Comp("a"), Comp("b")>>}
NsArgs == [kind : {"str"}, val : MdStrs] \cup [kind : {"ns"}, val : MdNamespaces]
Seeds == {EmptyDict, "k1" :> "v1"}
OtherSeeds == {"k1" :> "v2"}
UpdateArgs == {"k1" :> "v2" @@ "k2" :> "v2"}
Defaults == {None, "v0"}

cur == [stores |-> stores, heap |-> heap]

Commit(md) == stores' = md.stores /\ heap' = md.heap

\* The record of a call: self and a returned view are positions in views.
Called(op, self, arg, ret) ==
  /\ lastOp' = [op |-> op, self |-> self, arg |-> arg, ret |-> ret]
  /\ nOps' = nOps + 1

\* m = Metadata(seed); other = Metadata(seed2)
MdInit ==
  /\ \E seed \in Seeds, seed2 \in OtherSeeds :
       LET m == Metadata__init__([stores |-> <<>>, heap |-> <<>>], seed)
           other == Metadata__init__(m.md, seed2)
       IN  /\ stores = other.md.stores
           /\ heap = other.md.heap
           /\ views = <<m.view, other.view>>
           /\ lastOp = [op |-> "__init__", self |-> 2,
                        arg |-> seed2, ret |-> None]
  /\ nOps = 0

\* A call that returns a new view.
Returned(op, self, arg, made) ==
  /\ Len(made.view.namespace) <= MaxNsLen
  /\ Commit(made.md)
  /\ views' = Append(views, made.view)
  /\ Called(op, self, arg, Len(views) + 1)

\* A call that only reads.
Read(op, self, arg, ret) ==
  /\ Called(op, self, arg, ret)
  /\ UNCHANGED <<stores, heap, views>>

AbsNs(self, namespace) ==
  /\ nOps < MaxOps
  /\ Returned("abs_ns", self, namespace, abs_ns(cur, views[self], namespace))
  /\ UNCHANGED <<codecVars, resVars, gtVars>>

Ns(self, components) ==
  /\ nOps < MaxOps
  /\ Returned("ns", self, components, ns(cur, views[self], components))
  /\ UNCHANGED <<codecVars, resVars, gtVars>>

Copy(self) ==
  /\ nOps < MaxOps
  /\ Returned("__copy__", self, None, Metadata__copy__(cur, views[self]))
  /\ UNCHANGED <<codecVars, resVars, gtVars>>

GetItem(self, key) ==
  /\ nOps < MaxOps
  /\ Read("__getitem__", self, key,
          Metadata__getitem__(cur, views[self], key))
  /\ UNCHANGED <<codecVars, resVars, gtVars>>

Iter(self) ==
  /\ nOps < MaxOps
  /\ Read("__iter__", self, None, Metadata__iter__(cur, views[self]))
  /\ UNCHANGED <<codecVars, resVars, gtVars>>

LenOf(self) ==
  /\ nOps < MaxOps
  /\ Read("__len__", self, None, Metadata__len__(cur, views[self]))
  /\ UNCHANGED <<codecVars, resVars, gtVars>>

Get(self, key, default) ==
  /\ nOps < MaxOps
  /\ Read("get", self, [key |-> key, default |-> default],
          Metadata_get(cur, views[self], key, default))
  /\ UNCHANGED <<codecVars, resVars, gtVars>>

Namespaces(self) ==
  /\ nOps < MaxOps
  /\ Read("namespaces", self, None, namespaces(cur, views[self]))
  /\ UNCHANGED <<codecVars, resVars, gtVars>>

Subnamespaces(self) ==
  /\ nOps < MaxOps
  /\ Read("subnamespaces", self, None, subnamespaces(cur, views[self]))
  /\ UNCHANGED <<codecVars, resVars, gtVars>>

SetItem(self, key, value) ==
  /\ nOps < MaxOps
  /\ Commit(Metadata__setitem__(cur, views[self], key, value))
  /\ Called("__setitem__", self, [key |-> key, value |-> value], None)
  /\ UNCHANGED views
  /\ UNCHANGED <<codecVars, resVars, gtVars>>

\* del of a missing key raises KeyError and changes nothing.
DelItem(self, key) ==
  /\ nOps < MaxOps
  /\ IF Metadata__getitem__(cur, views[self], key) = KeyError
     THEN /\ UNCHANGED <<stores, heap>>
          /\ Called("__delitem__", self, key, KeyError)
     ELSE /\ Commit(Metadata__delitem__(cur, views[self], key))
          /\ Called("__delitem__", self, key, None)
  /\ UNCHANGED views
  /\ UNCHANGED <<codecVars, resVars, gtVars>>

Update(self, arg) ==
  /\ nOps < MaxOps
  /\ Commit(update(cur, views[self], arg))
  /\ Called("update", self, arg, None)
  /\ UNCHANGED views
  /\ UNCHANGED <<codecVars, resVars, gtVars>>

\* The namespaces attach writes to.
AttachTargets(md, self, other) ==
  LET rels == subnamespaces(md, other)
  IN  {Namespace__add__(self.namespace, [kind |-> "ns", val |-> rels[i]]) :
         i \in 1..Len(rels)}

\* What a view shows at and below its namespace: the relative paths of
\* subnamespaces(), each with its dictionary.
Visible(md, view) ==
  LET rels == subnamespaces(md, view)
  IN  {<<rels[i], md.heap[EntryObj(md.stores[view.stores],
                                   view.namespace \o rels[i])]>> :
         i \in 1..Len(rels)}

\* The record of an attach call also keeps what other showed when the call
\* was made, and whether the call repeats the call before it on the same
\* data.
Attach(self, other) ==
  /\ nOps < MaxOps
  /\ \A target \in AttachTargets(cur, views[self], views[other]) :
       Len(target) <= MaxNsLen
  /\ Commit(attach(cur, views[self], views[other]))
  /\ lastOp' = [op |-> "attach", self |-> self, arg |-> other, ret |-> None,
                shown |-> Visible(cur, views[other]),
                repeats |-> /\ lastOp.op = "attach"
                            /\ lastOp.self = self
                            /\ lastOp.arg = other
                            /\ lastOp.shown = Visible(cur, views[other])]
  /\ nOps' = nOps + 1
  /\ UNCHANGED views
  /\ UNCHANGED <<codecVars, resVars, gtVars>>

MdNext ==
  \/ \E self \in DOMAIN views, arg \in NsArgs : AbsNs(self, arg)
  \/ \E self \in DOMAIN views, arg \in NsArgs : Ns(self, arg)
  \/ \E self \in DOMAIN views : Copy(self)
  \/ \E self \in DOMAIN views, key \in MdKeys : GetItem(self, key)
  \/ \E self \in DOMAIN views : Iter(self)
  \/ \E self \in DOMAIN views : LenOf(self)
  \/ \E self \in DOMAIN views, key \in MdKeys, default \in Defaults :
       Get(self, key, default)
  \/ \E self \in DOMAIN views : Namespaces(self)
  \/ \E self \in DOMAIN views : Subnamespaces(self)
  \/ \E self \in DOMAIN views, key \in MdKeys, value \in MdVals :
       SetItem(self, key, value)
  \/ \E self \in DOMAIN views, key \in MdKeys : DelItem(self, key)
  \/ \E self \in DOMAIN views, arg \in UpdateArgs : Update(self, arg)
  \/ \E self \in DOMAIN views, other \in DOMAIN views : Attach(self, other)

Init == MdInit /\ CodecIdle /\ ResIdle /\ GtIdle

Next == MdNext

Spec == Init /\ [][Next]_vars

(***************************************************************************)
(* Metadata scenario with a populated tree: the calls of the interface are *)
(* made after m = Metadata(seed); w = m.abs_ns(n); w[k2] = v1, a set-up    *)
(* that is counted as one call of the budget.                              *)
(***************************************************************************)
TreeNamespaces == {<<Comp("a"), Comp("b")>>, <<Comp("b")>>}

MdInitTree ==
  /\ \E seed \in Seeds, n \in TreeNamespaces :
       LET m == Metadata__init__([stores |-> <<>>, heap |-> <<>>], seed)
           w == abs_ns(m.md, m.view, [kind |-> "ns", val |-> n])
           written == Metadata__setitem__(w.md, w.view, "k2", "v1")
       IN  /\ stores = written.stores
           /\ heap = written.heap
           /\ views = <<m.view, w.view>>
           /\ lastOp = [op |-> "__setitem__", self |-> 2,
                        arg |-> [key |-> "k2", value |-> "v1"], ret |-> None]
  /\ nOps = 1

InitTree == MdInitTree /\ CodecIdle /\ ResIdle /\ GtIdle

SpecTree == InitTree /\ [][Next]_vars

(***************************************************************************)
(* Trial-parameter resolver: StudyConfig._pytrial_parameters and           *)
(* StudyConfig._trial_to_external_values.                                  *)
(*                                                                         *)
(* The search space is a table of ParameterConfigs; config i is            *)
(* [name, external_type, parent, matching_parent_values], parent = 0 for   *)
(* a member of search_space.parameters and the index of the parent config  *)
(* otherwise; declared order is index order.  A parameter name is a        *)
(* sequence of one-character strings.  A ParameterValue is                 *)
(* [value |-> raw]; an external value is [type, value].  A Python dict     *)
(* whose iteration order the code relies on is a sequence of [key, val].   *)
(***************************************************************************)
MaxConfigs == 3
Digits == {"0", "1"}

DigitValue(d) == IF d = "0" THEN 0 ELSE 1

ParamNames == {<<"x">>, <<"x", "[", "0", "]">>, <<"x", "[", "1", "]">>}

RawValues == {"low", "high"}

ExternalTypes == {None, "INTEGER"}

ValueError == "ValueError"

\* SearchSpaceSelector.parse_multi_dimensional_parameter_name: None, or
\* the base name and the index of a name of the form base[index].
parse_multi_dimensional_parameter_name(name) ==
  LET n == Len(name) IN
  IF /\ n >= 4
     /\ name[n] = "]"
     /\ name[n - 1] \in Digits
     /\ name[n - 2] = "["
  THEN <<SubSeq(name, 1, n - 3), DigitValue(name[n - 1])>>
  ELSE None

\* ParameterValue.cast(external_type): the value in the external type.
cast(pv, external_type) == [type |-> external_type, value |-> pv.value]

\* ParameterValue.value: the value as stored, in no external type.
value_of(pv) == [type |-> None, value |-> pv.value]

\* Insertion-ordered dict operations.
OKeys(d) == {d[i].key : i \in DOMAIN d}

OGet(d, k) == LET i == CHOOSE i \in DOMAIN d : d[i].key = k IN d[i].val

OSet(d, k, v) ==
  IF k \in OKeys(d)
  THEN [i \in DOMAIN d |-> IF d[i].key = k THEN [key |-> k, val |-> v] ELSE d[i]]
  ELSE Append(d, [key |-> k, val |-> v])

\* The indices of the configs whose parent is p, in declared order.
RECURSIVE configs_of(_, _, _)
configs_of(space, p, i) ==
  IF i > Len(space) THEN <<>>
  ELSE (IF space[i].parent = p THEN <<i>> ELSE <<>>)
       \o configs_of(space, p, i + 1)

\* search_space.parameters
parameters(space) == configs_of(space, 0, 1)

\* pc.child_parameter_configs
child_parameter_configs(space, pc) == configs_of(space, pc, 1)

\* (None, p) for p in self.search_space.parameters
initial_queue(space) ==
  [k \in DOMAIN parameters(space) |->
     [parent_name |-> None, pc |-> parameters(space)[k]]]

\* A variant that queues the children as if they were roots.
child_entries_unparented(space, pc) ==
  [k \in DOMAIN child_parameter_configs(space, pc) |->
     [parent_name |-> None, pc |-> child_parameter_configs(space, pc)[k]]]

\* (pc.name, child) for child in pc.child_parameter_configs
child_entries(space, pc) ==
  [k \in DOMAIN child_parameter_configs(space, pc) |->
     [parent_name |-> space[pc].name,
      pc |-> child_parameter_configs(space, pc)[k]]]

\* A variant that tests only that the parent was resolved.
skipped_by_parent_unmatched(space, parent_name, pc, values) ==
  /\ parent_name # None
  /\ parent_name \notin DOMAIN values

\* The test of lines 303-310: the config is a child whose parent was not
\* resolved, or was resolved to a value the child does not match.
skipped_by_parent(space, parent_name, pc, values) ==
  /\ parent_name # None
  /\ \/ parent_name \notin DOMAIN values
     \/ values[parent_name] \notin space[pc].matching_parent_values

\* A variant that never casts.
external_value_uncast(space, pc, pv) == value_of(pv)

\* Lines 312-315: without an external type the value is not cast.
external_value(space, pc, pv) ==
  IF space[pc].external_type = None
  THEN value_of(pv)
  ELSE cast(pv, space[pc].external_type)

\* A bug the resolver could have: remaining_parameters is
\* pytrial.parameters itself, and the pop empties the caller's mapping.
pop_from_alias(trial, remaining, name) ==
  [pytrial |-> DictDel(trial, name),
   remaining_parameters |-> DictDel(remaining, name)]

\* A bug the resolver could have: the resolved entry is left in
\* remaining_parameters.
pop_from_copy_kept(trial, remaining, name) ==
  [pytrial |-> trial, remaining_parameters |-> remaining]

\* Lines 295 and 317: remaining_parameters is a deep copy of
\* pytrial.parameters, so remaining_parameters.pop(pc.name) takes the entry
\* out of the copy and leaves pytrial.parameters as it is.
pop_from_copy(trial, remaining, name) ==
  [pytrial |-> trial,
   remaining_parameters |-> DictDel(remaining, name)]

\* A variant that accepts a partial resolution.
lengths_differ_above(external, params) ==
  Len(external) > Cardinality(DOMAIN params)

\* Line 357.
lengths_differ(external, params) ==
  Len(external) # Cardinality(DOMAIN params)

\* A bug the recombination could have: the indexed values are left in the
\* order in which they were resolved.
insert_unsorted(sorted, item) == Append(sorted, item)

\* list.sort(key=lambda x: x[0]): a stable insertion sort on the index.
RECURSIVE insert_sorted(_, _)
insert_sorted(sorted, item) ==
  IF sorted = <<>> THEN <<item>>
  ELSE IF item[1] < Head(sorted)[1]
       THEN <<item>> \o sorted
       ELSE <<Head(sorted)>> \o insert_sorted(Tail(sorted), item)

RECURSIVE sort_by_index(_)
sort_by_index(items) ==
  IF items = <<>> THEN <<>>
  ELSE insert_sorted(sort_by_index(SubSeq(items, 1, Len(items) - 1)),
                     items[Len(items)])

\* Lines 365-372: the first loop of the recombination, from entry i on;
\* st = [final, multi] holds trial_final_values and multi_dim_params.
RECURSIVE group_loop(_, _, _)
group_loop(external, i, st) ==
  IF i > Len(external) THEN st
  ELSE LET name == external[i].key
           base_index == parse_multi_dimensional_parameter_name(name)
       IN IF base_index = None
          THEN group_loop(external, i + 1,
                 [st EXCEPT !.final =
                    OSet(@, name, [list |-> FALSE, v |-> external[i].val])])
          ELSE group_loop(external, i + 1,
                 [st EXCEPT !.multi =
                    OSet(@, base_index[1],
                      (IF base_index[1] \in OKeys(@)
                       THEN OGet(@, base_index[1]) ELSE <<>>)
                      \o << <<base_index[2], external[i].val>> >>)])

\* Line 375: [x[1] for x in multi_dim_params[name]]
values_of(items) == [k \in DOMAIN items |-> items[k][2]]

\* Lines 373-375: the second loop of the recombination, from entry i on.
RECURSIVE assign_loop(_, _, _)
assign_loop(multi, i, final) ==
  IF i > Len(multi) THEN final
  ELSE assign_loop(multi, i + 1,
         OSet(final, multi[i].key,
              [list |-> TRUE, v |-> values_of(sort_by_index(multi[i].val))]))

\* Lines 361-377.
recombine(external) ==
  LET st == group_loop(external, 1, [final |-> <<>>, multi |-> <<>>])
  IN assign_loop(st.multi, 1, st.final)

\* The search spaces and the trials of the scenario.  The configs of a
\* search space are listed in breadth-first order (the roots, then the
\* children of the first config, of the second, ...), so that the parent
\* of a config never precedes the parent of the config listed before it.
ConfigsAt(i) ==
  [name : ParamNames, external_type : ExternalTypes,
   parent : {0}, matching_parent_values : {{}}]
  \cup
  [name : ParamNames, external_type : ExternalTypes,
   parent : 1 .. (i - 1), matching_parent_values : {{"low"}, {"high"}}]

RECURSIVE SpacesOfLen(_)
SpacesOfLen(n) ==
  IF n = 0 THEN {<<>>}
  ELSE {t \in {Append(s, c) : s \in SpacesOfLen(n - 1), c \in ConfigsAt(n)} :
          n = 1 \/ t[n].parent >= t[n - 1].parent}

Trials == UNION {[D -> [value : RawValues]] : D \in SUBSET ParamNames}

\* Lines 287-295: _pytrial_parameters has called
\* _trial_to_external_values, whose locals are set up.
ResInit ==
  /\ \E n \in 0 .. MaxConfigs : search_space \in SpacesOfLen(n)
  /\ pytrial \in Trials
  /\ res_pc = "loop"
  /\ parameter_values = EmptyDict
  /\ external_values = <<>>
  /\ parameter_configs = initial_queue(search_space)
  /\ remaining_parameters = pytrial
  /\ trial_final_values = <<>>
  /\ popped = <<>>

\* A variant that goes on until the queue is empty.
loop_test_queue_only(configs, remaining) == configs # <<>>

\* Line 297: the test of the while loop.
loop_test(configs, remaining) ==
  configs # <<>> /\ DOMAIN remaining # {}

\* Lines 297-318 as a function: the traversal from a queue, the remaining
\* entries and the two mappings of resolved values to the returned
\* external_values.
RECURSIVE traverse(_, _, _, _, _)
traverse(space, queue, remaining, values, external) ==
  IF ~loop_test(queue, remaining) THEN external
  ELSE LET parent_name == Head(queue).parent_name
           pc == Head(queue).pc
           name == space[pc].name
           rest == Tail(queue) \o child_entries(space, pc)
       IN IF \/ name \notin DOMAIN remaining
             \/ skipped_by_parent(space, parent_name, pc, values)
          THEN traverse(space, rest, remaining, values, external)
          ELSE traverse(space, rest,
                 pop_from_copy(remaining, remaining, name).remaining_parameters,
                 DictSet(values, name, remaining[name].value),
                 OSet(external, name,
                      external_value(space, pc, remaining[name])))

\* Lines 284-318.
_trial_to_external_values(space, trial) ==
  traverse(space, initial_queue(space), trial, EmptyDict, <<>>)

\* A dict as Python compares it: the key-value pairs, without their order.
items(d) == {<<d[i].key, d[i].val>> : i \in DOMAIN d}

\* Lines 339-377 as a function: the call raises ValueError or returns the
\* recombined mapping.
_pytrial_parameters(space, trial) ==
  LET trial_external_values == _trial_to_external_values(space, trial)
  IN  IF lengths_differ(trial_external_values, trial)
      THEN [raised |-> TRUE, returned |-> {}]
      ELSE [raised |-> FALSE,
            returned |-> items(recombine(trial_external_values))]

\* Lines 297-317: one iteration of the traversal.
Iterate ==
  /\ res_pc = "loop"
  /\ loop_test(parameter_configs, remaining_parameters)
  /\ LET parent_name == Head(parameter_configs).parent_name
         pc == Head(parameter_configs).pc
         name == search_space[pc].name
         resolves == ~(\/ name \notin DOMAIN remaining_parameters
                       \/ skipped_by_parent(search_space, parent_name, pc,
                                            parameter_values))
     IN /\ parameter_configs' =
             Tail(parameter_configs) \o child_entries(search_space, pc)
        /\ popped' = Append(popped, [parent_name |-> parent_name, pc |-> pc,
                                     resolved |-> resolves])
        /\ IF ~resolves
           THEN UNCHANGED <<parameter_values, external_values,
                            remaining_parameters, pytrial>>
           ELSE /\ parameter_values' =
                     DictSet(parameter_values, name,
                             remaining_parameters[name].value)
                /\ external_values' =
                     OSet(external_values, name,
                          external_value(search_space, pc,
                                         remaining_parameters[name]))
                /\ LET after == pop_from_copy(pytrial, remaining_parameters,
                                              name)
                   IN  /\ remaining_parameters' = after.remaining_parameters
                       /\ pytrial' = after.pytrial
  /\ UNCHANGED <<search_space, res_pc, trial_final_values>>
  /\ UNCHANGED <<codecVars, mdVars, gtVars>>

\* Lines 297, 318 and 355-359: the loop ends, external_values is returned
\* and has not the length of pytrial.parameters.
Raise ==
  /\ res_pc = "loop"
  /\ ~loop_test(parameter_configs, remaining_parameters)
  /\ lengths_differ(external_values, pytrial)
  /\ res_pc' = ValueError
  /\ UNCHANGED <<search_space, pytrial, parameter_configs,
                 remaining_parameters, parameter_values, external_values,
                 trial_final_values, popped>>
  /\ UNCHANGED <<codecVars, mdVars, gtVars>>

\* Lines 297, 318, 355-357 and 361-377: the loop ends, external_values is
\* returned, has the length of pytrial.parameters and is recombined.
Combine ==
  /\ res_pc = "loop"
  /\ ~loop_test(parameter_configs, remaining_parameters)
  /\ ~lengths_differ(external_values, pytrial)
  /\ trial_final_values' = recombine(external_values)
  /\ res_pc' = "done"
  /\ UNCHANGED <<search_space, pytrial, parameter_configs,
                 remaining_parameters, parameter_values, external_values,
                 popped>>
  /\ UNCHANGED <<codecVars, mdVars, gtVars>>

ResNext == Iterate \/ Raise \/ Combine

InitRes == ResInit /\ CodecIdle /\ MdIdle /\ GtIdle

SpecRes == InitRes /\ [][ResNext]_vars

\* The call is sequential code: a step that can be taken is taken.
SpecResFair == InitRes /\ [][ResNext]_vars /\ WF_vars(ResNext)

(***************************************************************************)
(* ServicePolicySupporter.GetTrials.  A trial is [id, status,              *)
(* measurements]; an optional argument is the empty tuple when it is None  *)
(* and the one-element tuple of its value when it is given.                *)
(***************************************************************************)
MaxTrialId == 2

TrialIds == 1..MaxTrialId

\* The values of study_pb2.Trial.State that the callers pass and the trials
\* carry; STATE_UNSPECIFIED is the zero value of the enum.
States == {"STATE_UNSPECIFIED", "ACTIVE", "SUCCEEDED"}

Optional(S) == {<<>>} \cup {<<v>> : v \in S}

\* The truth value Python gives to an optional State: None and the zero
\* value of the enum are false.
bool(status) == status # <<>> /\ status[1] # "STATE_UNSPECIFIED"

\* Lines 60-62: the test that rejects the call.
mixed_selectors(args) ==
  /\ args.trial_ids # <<>>
  /\ \/ args.min_trial_id # <<>>
     \/ args.max_trial_id # <<>>
     \/ bool(args.status_matches)

\* Lines 71-84.
_trial_filter(args, trial) ==
  IF args.trial_ids # <<>> /\ trial.id \notin args.trial_ids[1]
  THEN FALSE
  ELSE IF args.min_trial_id # <<>> /\ trial.id < args.min_trial_id[1]
  THEN FALSE
  ELSE IF args.max_trial_id # <<>> /\ trial.id > args.max_trial_id[1]
  THEN FALSE
  ELSE IF bool(args.status_matches) /\ trial.status # args.status_matches[1]
  THEN FALSE
  ELSE TRUE

\* Line 86: [t for t in all_pytrials if _trial_filter(t)]
RECURSIVE filter_trials(_, _)
filter_trials(args, all_pytrials) ==
  IF all_pytrials = <<>> THEN <<>>
  ELSE (IF _trial_filter(args, Head(all_pytrials))
        THEN <<Head(all_pytrials)>> ELSE <<>>)
       \o filter_trials(args, Tail(all_pytrials))

\* Lines 89-91.
without_measurements(trials) ==
  [i \in DOMAIN trials |-> [trials[i] EXCEPT !.measurements = <<>>]]

Trial == [id : TrialIds, status : States, measurements : {<<"m">>}]

\* The lists of trials with distinct ids, in any order.
RECURSIVE TrialLists(_)
TrialLists(n) ==
  IF n = 0 THEN {<<>>}
  ELSE {t \in {Append(l, trial) : l \in TrialLists(n - 1), trial \in Trial} :
          \A i \in 1..(n - 1) : t[i].id # t[n].id}

GetTrialsArgs ==
  [trial_ids : Optional(SUBSET TrialIds),
   min_trial_id : Optional(TrialIds),
   max_trial_id : Optional(TrialIds),
   status_matches : Optional(States),
   include_intermediate_measurements : BOOLEAN]

GtInit ==
  /\ \E n \in 0..MaxTrialId : listed_trials \in TrialLists(n)
  /\ gt_args \in GetTrialsArgs
  /\ gt_pc = "called"
  /\ filtered_pytrials = <<>>

\* Lines 60-65.
GetTrialsRaise ==
  /\ gt_pc = "called"
  /\ mixed_selectors(gt_args)
  /\ gt_pc' = ValueError
  /\ UNCHANGED <<listed_trials, gt_args, filtered_pytrials>>
  /\ UNCHANGED <<codecVars, mdVars, resVars>>

\* Lines 66-93.
GetTrialsReturn ==
  /\ gt_pc = "called"
  /\ ~mixed_selectors(gt_args)
  /\ filtered_pytrials' =
       (IF gt_args.include_intermediate_measurements
        THEN filter_trials(gt_args, listed_trials)
        ELSE without_measurements(filter_trials(gt_args, listed_trials)))
  /\ gt_pc' = "returned"
  /\ UNCHANGED <<listed_trials, gt_args>>
  /\ UNCHANGED <<codecVars, mdVars, resVars>>

GtNext == GetTrialsRaise \/ GetTrialsReturn

InitGet == GtInit /\ CodecIdle /\ MdIdle /\ ResIdle

SpecGet == InitGet /\ [][GtNext]_vars

(***************************************************************************)
(* Claims.                                                                 *)
(***************************************************************************)
\* C1: for every Namespace n built from any sequence of component strings,
\* Namespace(repr(n)) equals n.
C1_RoundTrip ==
  (ns_pc = "decoded" /\ ns_arg.kind = "tuple") => ns_dec = ns_val

\* The components of a string read character by character: a backslash
\* followed by a colon adds a colon to the component being read, any other
\* colon ends it and starts the next, any other character is added to it.
RECURSIVE ReadComponents(_, _, _)
ReadComponents(s, i, comps) ==
  LET n == Len(comps) IN
  IF i > Len(s) THEN comps
  ELSE IF s[i] = "\\" /\ i < Len(s) /\ s[i + 1] = ":"
  THEN ReadComponents(s, i + 2, [comps EXCEPT ![n] = Append(@, ":")])
  ELSE IF s[i] = ":"
  THEN ReadComponents(s, i + 1, Append(comps, <<>>))
  ELSE ReadComponents(s, i + 1, [comps EXCEPT ![n] = Append(@, s[i])])

\* The positions of the colons that do not directly follow a backslash.
SeparatingColons(s) ==
  {i \in 2..Len(s) : s[i] = ":" /\ s[i - 1] # "\\"}

\* C14: in the decoding of a string, a colon that directly follows a
\* backslash is a colon of the component and the backslash is dropped,
\* every other colon (after the first character) separates two components,
\* so that there is one component more than there are such colons, and the
\* components of a string that does not end in a backslash are the ones
\* read character by character: a\:b decodes to the one component a:b, a:b
\* to the two components a and b, and a\:b\:c to the one component a:b:c.
C14_Escaping ==
  (ns_pc = "made" /\ ns_arg.kind = "str") =>
    /\ (ns_arg.val # <<>> /\ ns_arg.val[1] # ":") =>
         /\ Len(ns_val) = 1 + Cardinality(SeparatingColons(ns_arg.val))
         /\ ns_arg.val[Len(ns_arg.val)] # "\\" =>
              ns_val = ReadComponents(ns_arg.val, 1, << <<>> >>)
    /\ ns_arg.val = <<"a", "\\", ":", "b">> =>
         ns_val = << <<"a", ":", "b">> >>
    /\ ns_arg.val = <<"a", ":", "b">> =>
         ns_val = << <<"a">>, <<"b">> >>
    /\ ns_arg.val = <<"a", "\\", ":", "b", "\\", ":", "c">> =>
         ns_val = << <<"a", ":", "b", ":", "c">> >>

\* The string a\:b\:c was decoded to one component.
C14_Witness ==
  /\ ns_pc = "made"
  /\ ns_arg = [kind |-> "str",
               val |-> <<"a", "\\", ":", "b", "\\", ":", "c">>]
  /\ Len(ns_val) = 1

MaxColons == 2   \* leading colons put before a string

RECURSIVE Colons(_)
Colons(k) == IF k = 0 THEN <<>> ELSE <<":">> \o Colons(k - 1)

\* C15: the Namespace decoded from k colons followed by a string s is the
\* Namespace decoded from s, for every k; the empty string and a string of
\* colons only decode to the Namespace without components.
C15_LeadingColons ==
  (ns_pc = "made" /\ ns_arg.kind = "str") =>
    /\ \A k \in 0..MaxColons :
         Namespace__init__([kind |-> "str", val |-> Colons(k) \o ns_arg.val])
           = ns_val
    /\ (\A i \in 1..Len(ns_arg.val) : ns_arg.val[i] = ":") => ns_val = <<>>

\* A string with a leading colon and a component was decoded.
C15_Witness ==
  /\ ns_pc = "made"
  /\ ns_arg = [kind |-> "str", val |-> <<":", ":", "a">>]
  /\ ns_val = << <<"a">> >>

\* The dictionary that the backing structure b holds for namespace n.
DictAt(md, b, n) ==
  IF HasEntry(md.stores[b], n) THEN md.heap[EntryObj(md.stores[b], n)]
  ELSE EmptyDict

\* The namespaces that the backing structure b has an entry for.
EntryNamespaces(md, b) == {md.stores[b][i].ns : i \in 1..Len(md.stores[b])}

SameNamespace(v, w) ==
  /\ views[v].stores = views[w].stores
  /\ views[v].namespace = views[w].namespace

\* C2: any two views of one backing structure whose current namespaces are
\* equal observe the same dictionary: a key set through one is read through
\* the other, a key deleted through one is missing through the other; a
\* shallow copy has the namespace, and observes the dictionary, of its
\* original.
C2_Sharing ==
  /\ \A v, w \in DOMAIN views :
       SameNamespace(v, w) => heap[views[v].store] = heap[views[w].store]
  /\ lastOp.op = "__setitem__" =>
       \A w \in DOMAIN views :
         SameNamespace(lastOp.self, w) =>
           Metadata__getitem__(cur, views[w], lastOp.arg.key)
             = lastOp.arg.value
  /\ (lastOp.op = "__delitem__" /\ lastOp.ret = None) =>
       \A w \in DOMAIN views :
         SameNamespace(lastOp.self, w) =>
           Metadata__getitem__(cur, views[w], lastOp.arg) = KeyError
  /\ lastOp.op = "__copy__" =>
       /\ lastOp.ret # lastOp.self
       /\ SameNamespace(lastOp.self, lastOp.ret)

\* A key was set through one view of a non-root namespace and is read
\* through another view object of that namespace.
C2_Witness ==
  /\ lastOp.op = "__setitem__"
  /\ \E w \in DOMAIN views :
       /\ w # lastOp.self
       /\ SameNamespace(lastOp.self, w)
       /\ views[w].namespace # <<>>
       /\ Metadata__getitem__(cur, views[w], lastOp.arg.key)
            = lastOp.arg.value

\* C3: get, set, delete, iterate, length and update through a view read and
\* change only the dictionary of the view's current namespace: the
\* dictionary of every other namespace, of any backing structure, is as it
\* was, a write lands in the dictionary that the backing structure holds
\* for the view's namespace, and a read returns what that dictionary holds.
C3_Isolation ==
  [][LET op == lastOp'.op
         self == views[lastOp'.self]
         arg == lastOp'.arg
         before == cur
         after == [stores |-> stores', heap |-> heap']
         own == DictAt(before, self.stores, self.namespace)
         own_after == DictAt(after, self.stores, self.namespace)
         others_kept ==
           \A b \in DOMAIN stores' :
             \A n \in EntryNamespaces(after, b) :
               (b # self.stores \/ n # self.namespace) =>
                 DictAt(after, b, n) = DictAt(before, b, n)
     IN  /\ op = "__setitem__" =>
              others_kept /\ own_after = DictSet(own, arg.key, arg.value)
         /\ op = "__delitem__" =>
              others_kept /\ own_after = DictDel(own, arg)
         /\ op = "update" =>
              others_kept /\ own_after = DictUpdate(own, arg)
         /\ op = "__getitem__" =>
              /\ others_kept /\ own_after = own
              /\ lastOp'.ret = IF arg \in DOMAIN own THEN own[arg] ELSE KeyError
         /\ op = "__iter__" =>
              others_kept /\ own_after = own /\ lastOp'.ret = DOMAIN own
         /\ op = "__len__" =>
              /\ others_kept /\ own_after = own
              /\ lastOp'.ret = Cardinality(DOMAIN own)]_vars

\* A key was set through a view of namespace (a) while the root and the
\* unrelated namespace (b) of the same backing structure do not hold it.
C3_Witness ==
  /\ lastOp.op = "__setitem__"
  /\ views[lastOp.self].namespace = <<Comp("a")>>
  /\ LET b == views[lastOp.self].stores
     IN  /\ HasEntry(stores[b], <<Comp("b")>>)
         /\ lastOp.arg.key \notin DOMAIN DictAt(cur, b, <<>>)
         /\ lastOp.arg.key \notin DOMAIN DictAt(cur, b, <<Comp("b")>>)
         /\ lastOp.arg.key \in DOMAIN DictAt(cur, b, <<Comp("a")>>)

\* The relative paths of subnamespaces(), as a set.
SubNamespaces(md, view) ==
  LET rels == subnamespaces(md, view) IN {rels[i] : i \in 1..Len(rels)}

\* attach's postcondition, with other read in the state shown: self holds
\* other's items at every relative path, and keeps its own other items.
AttachedFrom(shown, before, after, self, other) ==
  \A r \in SubNamespaces(shown, other) :
    LET theirs == DictAt(shown, other.stores, other.namespace \o r)
        mine == DictAt(before, self.stores, self.namespace \o r)
        mine_after == DictAt(after, self.stores, self.namespace \o r)
    IN  /\ \A k \in DOMAIN theirs :
             k \in DOMAIN mine_after /\ mine_after[k] = theirs[k]
        /\ \A k \in DOMAIN mine \ DOMAIN theirs :
             k \in DOMAIN mine_after /\ mine_after[k] = mine[k]

\* C4: after self.attach(other), for every relative path r of
\* other.subnamespaces() and every key k of other at r, self maps k at
\* (its namespace + r) to other's value, and the keys of self there that
\* other lacks keep their values; other is read as it was when the call was
\* made, or as it is when the call returns.
C4_AttachOverwrite ==
  [][lastOp'.op = "attach" =>
       LET self == views[lastOp'.self]
           other == views[lastOp'.arg]
           before == cur
           after == [stores |-> stores', heap |-> heap']
       IN  \/ AttachedFrom(before, before, after, self, other)
           \/ AttachedFrom(after, before, after, self, other)]_vars

\* C24: self.attach(other) leaves what other shows at and below its
\* namespace as it was when the call was made: the same relative paths,
\* each with the same dictionary.
C24_AttachFrame ==
  [][lastOp'.op = "attach" =>
       Visible([stores |-> stores', heap |-> heap'], views[lastOp'.arg])
         = lastOp'.shown]_vars

\* C9: attach removes no key of any dictionary, and a second
\* self.attach(other), made right after the first with other showing the
\* same data as at the first, leaves every dictionary as the first call
\* left it.
C9_AttachIdempotent ==
  [][lastOp'.op = "attach" =>
       LET other == views[lastOp'.arg]
           before == cur
           after == [stores |-> stores', heap |-> heap']
       IN  /\ \A b \in DOMAIN stores :
                \A n \in EntryNamespaces(before, b) :
                  DOMAIN DictAt(before, b, n) \subseteq DOMAIN DictAt(after, b, n)
           /\ (/\ lastOp.op = "attach"
               /\ lastOp.self = lastOp'.self
               /\ lastOp.arg = lastOp'.arg
               /\ lastOp.shown = Visible(before, other)) =>
                \A b \in DOMAIN stores' :
                  \A n \in EntryNamespaces(after, b) :
                    DictAt(after, b, n) = DictAt(before, b, n)]_vars

\* attach was called a second time on the same data, with self and other
\* of different backing structures, other holding a key that self has the
\* value of, and self holding a key that other lacks.
C9_Witness ==
  /\ lastOp.op = "attach"
  /\ lastOp.repeats
  /\ LET self == views[lastOp.self]
         other == views[lastOp.arg]
     IN  /\ self.stores # other.stores
         /\ \E k \in DOMAIN heap[other.store] :
              Metadata__getitem__(cur, self, k) = heap[other.store][k]
         /\ \E k \in DOMAIN heap[self.store] : k \notin DOMAIN heap[other.store]

\* C10: ns(s) with a str s appends s as one component, colons kept;
\* abs_ns(s) decodes s (colons split, escaped colons kept in the component)
\* and the result replaces the whole current namespace; the view returned
\* addresses the dictionary that the backing structure holds for that
\* namespace, the one every other view of that namespace addresses.
C10_StringArgs ==
  [][LET op == lastOp'.op
         arg == lastOp'.arg
         old == views[lastOp'.self]
         new == views'[lastOp'.ret]
     IN  (op \in {"ns", "abs_ns"}) =>
           /\ (op = "ns" /\ arg.kind = "str") =>
                /\ Len(new.namespace) = Len(old.namespace) + 1
                /\ new.namespace = Append(old.namespace, arg.val)
           /\ (op = "abs_ns" /\ arg.kind = "str") =>
                /\ Namespace__repr__(new.namespace) = arg.val
                /\ \A i \in 1..Len(new.namespace) : new.namespace[i] # <<>>
                /\ arg.val = <<"a", ":", "b">> =>
                     new.namespace = <<Comp("a"), Comp("b")>>
           /\ (op = "abs_ns" /\ arg.kind = "ns") =>
                new.namespace = arg.val
           /\ new.stores = old.stores
           /\ new.store = EntryObj(stores'[new.stores], new.namespace)
           /\ \A w \in DOMAIN views :
                (views[w].stores = new.stores
                   /\ views[w].namespace = new.namespace) =>
                  views[w].store = new.store]_vars

\* abs_ns('a:b') returned a view of the two-component namespace (a, b),
\* which another view object already addresses.
C10_Witness ==
  /\ lastOp.op = "abs_ns"
  /\ lastOp.arg = [kind |-> "str", val |-> <<"a", ":", "b">>]
  /\ views[lastOp.ret].namespace = <<Comp("a"), Comp("b")>>
  /\ \E w \in DOMAIN views :
       /\ w # lastOp.ret
       /\ SameNamespace(w, lastOp.ret)
       /\ views[w].store = views[lastOp.ret].store

\* The elements of a tuple, as a set.
Elements(t) == {t[i] : i \in 1..Len(t)}

\* The namespaces of backing structure b whose dictionary holds a key.
NonEmptyNamespaces(md, b) ==
  {n \in EntryNamespaces(md, b) : DOMAIN DictAt(md, b, n) # {}}

\* C11: namespaces() returns, each once, exactly the namespaces of the
\* backing structure whose dictionary has at least one key, whatever views
\* were made and whatever keys were deleted before; for every namespace
\* returned, abs_ns of it is a view that is not empty.
C11_Namespaces ==
  lastOp.op = "namespaces" =>
    LET self == views[lastOp.self] IN
    /\ Elements(lastOp.ret) = NonEmptyNamespaces(cur, self.stores)
    /\ Len(lastOp.ret) = Cardinality(Elements(lastOp.ret))
    /\ \A n \in Elements(lastOp.ret) :
         LET made == abs_ns(cur, self, [kind |-> "ns", val |-> n])
         IN  Metadata__len__(made.md, made.view) > 0

\* namespaces() was called when the backing structure held a namespace
\* with keys, a namespace that a view was made for and nothing written to,
\* and it returned the non-root namespace that has keys.
C11_Witness ==
  /\ lastOp.op = "namespaces"
  /\ \E n \in Elements(lastOp.ret) : n # <<>>
  /\ \E n \in EntryNamespaces(cur, views[lastOp.self].stores) :
       DOMAIN DictAt(cur, views[lastOp.self].stores, n) = {}

\* C12: subnamespaces() of a view with current namespace c returns, each
\* once, exactly the suffixes below c of the namespaces of the backing
\* structure that hold a key and whose leading components are c: the empty
\* suffix when c itself holds a key, no namespace that does not start with
\* c; for every suffix r returned, ns(r) is a view that is not empty.
C12_Subnamespaces ==
  lastOp.op = "subnamespaces" =>
    LET self == views[lastOp.self]
        c == self.namespace
        below == {n \in NonEmptyNamespaces(cur, self.stores) :
                    /\ Len(n) >= Len(c)
                    /\ \A i \in 1..Len(c) : n[i] = c[i]}
    IN  /\ Elements(lastOp.ret) =
             {SubSeq(n, Len(c) + 1, Len(n)) : n \in below}
        /\ Len(lastOp.ret) = Cardinality(Elements(lastOp.ret))
        /\ (<<>> \in Elements(lastOp.ret)) = (DOMAIN DictAt(cur, self.stores, c) # {})
        /\ \A r \in Elements(lastOp.ret) :
             LET made == ns(cur, self, [kind |-> "ns", val |-> r])
             IN  Metadata__len__(made.md, made.view) > 0

\* subnamespaces() was called on a view of the namespace (a) and returned
\* the suffix (b) of the namespace (a, b), while the root namespace, which
\* does not start with (a), holds a key too.
C12_Witness ==
  /\ lastOp.op = "subnamespaces"
  /\ views[lastOp.self].namespace = <<Comp("a")>>
  /\ <<Comp("b")>> \in Elements(lastOp.ret)
  /\ DOMAIN DictAt(cur, views[lastOp.self].stores, <<>>) # {}

\* C13: for a key absent from the dictionary of the view's current
\* namespace, whether or not another namespace holds it, get(key, default)
\* returns default and view[key] raises KeyError, and neither call changes
\* a dictionary or adds a namespace to a backing structure.
C13_LookupMiss ==
  [][LET op == lastOp'.op
         self == views[lastOp'.self]
         arg == lastOp'.arg
         before == cur
         after == [stores |-> stores', heap |-> heap']
         own == DictAt(before, self.stores, self.namespace)
         nothing_changed ==
           /\ DOMAIN stores' = DOMAIN stores
           /\ \A b \in DOMAIN stores' :
                /\ EntryNamespaces(after, b) = EntryNamespaces(before, b)
                /\ \A n \in EntryNamespaces(after, b) :
                     DictAt(after, b, n) = DictAt(before, b, n)
     IN  /\ (op = "get" /\ arg.key \notin DOMAIN own) =>
              (lastOp'.ret = arg.default /\ nothing_changed)
         /\ (op = "__getitem__" /\ arg \notin DOMAIN own) =>
              (lastOp'.ret = KeyError /\ nothing_changed)]_vars

\* get was called with a default for a key that the view's namespace lacks
\* and the root namespace holds, and it returned the default.
C13_Witness ==
  /\ lastOp.op = "get"
  /\ views[lastOp.self].namespace # <<>>
  /\ lastOp.arg.key \notin DOMAIN heap[views[lastOp.self].store]
  /\ lastOp.arg.key \in DOMAIN DictAt(cur, views[lastOp.self].stores, <<>>)
  /\ lastOp.arg.default = "v0"
  /\ lastOp.ret = "v0"

(***************************************************************************)
(* Claims about ServicePolicySupporter.GetTrials.                          *)
(***************************************************************************)
\* An argument is given when the caller passed something other than None.
given(arg) == arg # <<>>

\* C17: a call that gives trial_ids together with any of min_trial_id,
\* max_trial_id or status_matches raises ValueError and returns no trials.
C17_MixedSelectorsRejected ==
  (/\ gt_pc \in {"returned", ValueError}
   /\ given(gt_args.trial_ids)
   /\ \/ given(gt_args.min_trial_id)
      \/ given(gt_args.max_trial_id)
      \/ given(gt_args.status_matches))
  => (gt_pc = ValueError /\ filtered_pytrials = <<>>)

\* The trials that pass every given selector, as the claim words them.
passes(args, trial) ==
  IF given(args.trial_ids) THEN trial.id \in args.trial_ids[1]
  ELSE /\ given(args.min_trial_id) => trial.id >= args.min_trial_id[1]
       /\ given(args.max_trial_id) => trial.id <= args.max_trial_id[1]
       /\ given(args.status_matches) => trial.status = args.status_matches[1]

RECURSIVE passing(_, _)
passing(args, trials) ==
  IF trials = <<>> THEN <<>>
  ELSE (IF passes(args, Head(trials)) THEN <<Head(trials)>> ELSE <<>>)
       \o passing(args, Tail(trials))

\* The ids and statuses of a list of trials, in order.
id_and_status(trials) ==
  [i \in DOMAIN trials |-> <<trials[i].id, trials[i].status>>]

\* C18: the result of a call that returns is, in the order the service lists
\* the trials, exactly the trials that pass every given selector: id in
\* trial_ids when it is given; otherwise id >= min_trial_id, id <=
\* max_trial_id and status = status_matches, for each of these that is given.
C18_Filtering ==
  gt_pc = "returned" =>
    id_and_status(filtered_pytrials)
      = id_and_status(passing(gt_args, listed_trials))


(***************************************************************************)
(* Claims about the trial-parameter resolver.                              *)
(***************************************************************************)
ConfigNames == {search_space[i].name : i \in DOMAIN search_space}

UnknownName == \E n \in DOMAIN pytrial : n \notin ConfigNames

\* C5: when the trial's raw mapping holds a name that no config of the
\* search space tree carries, the resolution never returns a mapping, and
\* nothing is put into the mapping to return, not even the part that was
\* resolved: the call ends by raising ValueError.
C5_MismatchDetected ==
  UnknownName =>
    /\ res_pc \in {"loop", ValueError}
    /\ trial_final_values = <<>>
    /\ (res_pc = "loop" /\ ~loop_test(parameter_configs, remaining_parameters))
         => Len(external_values) < Cardinality(DOMAIN pytrial)

\* A trial with an unknown name was resolved in part, and the call raised.
C5_Witness ==
  /\ UnknownName
  /\ res_pc = ValueError
  /\ external_values # <<>>

\* Config c is a child, the trial holds c's name and its parent's name, and
\* the parent's raw value is not one of c's matching parent values.
MismatchedChild(c) ==
  /\ search_space[c].parent # 0
  /\ search_space[c].name \in DOMAIN pytrial
  /\ LET a == search_space[search_space[c].parent].name
     IN /\ a \in DOMAIN pytrial
        /\ pytrial[a].value \notin search_space[c].matching_parent_values

OnlyConfigNamed(c) ==
  \A j \in DOMAIN search_space :
     search_space[j].name = search_space[c].name => j = c

\* C6 (as stated): when the trial holds an entry for a child parameter c
\* and for its parent a, and a's raw value is not among c's matching parent
\* values, c is never resolved and the resolution does not return.
C6_ConditionalSkip ==
  \A c \in DOMAIN search_space :
     MismatchedChild(c) =>
       /\ search_space[c].name \notin OKeys(external_values)
       /\ res_pc # "done"

\* C6 (amended): the same, for a child c whose name no other config of the
\* tree carries.
C6_ConditionalSkipUnique ==
  \A c \in DOMAIN search_space :
     (MismatchedChild(c) /\ OnlyConfigNamed(c)) =>
       /\ search_space[c].name \notin OKeys(external_values)
       /\ res_pc # "done"

\* The parent was resolved, the child was left unresolved because of the
\* parent's value, and the call raised.
C6_Witness ==
  /\ res_pc = ValueError
  /\ \E c \in DOMAIN search_space :
       /\ MismatchedChild(c)
       /\ OnlyConfigNamed(c)
       /\ search_space[search_space[c].parent].name \in DOMAIN parameter_values
       /\ search_space[c].name \in DOMAIN remaining_parameters

FlatSpace == \A i \in DOMAIN search_space : search_space[i].parent = 0

\* The first config, in declared order, that carries the name.
FirstConfigNamed(n) ==
  CHOOSE i \in DOMAIN search_space :
    /\ search_space[i].name = n
    /\ \A j \in 1 .. (i - 1) : search_space[j].name # n

\* C7: for a search space without child configs and a trial whose names
\* are all names of its parameters, the resolution does not raise, and the
\* external values it returns map every raw name to its raw value in the
\* external type of the name's config (the first one declared with that
\* name), or to the raw value as stored when the config declares no type.
C7_FlatResolution ==
  (FlatSpace /\ ~UnknownName) =>
    /\ res_pc # ValueError
    /\ res_pc = "done" =>
         /\ OKeys(external_values) = DOMAIN pytrial
         /\ Len(external_values) = Cardinality(DOMAIN pytrial)
         /\ \A n \in DOMAIN pytrial :
              OGet(external_values, n) =
                [type |-> search_space[FirstConfigNamed(n)].external_type,
                 value |-> pytrial[n].value]

\* A flat resolution returned with one value cast and one value not cast.
C7_Witness ==
  /\ FlatSpace
  /\ ~UnknownName
  /\ res_pc = "done"
  /\ \E n, m \in DOMAIN pytrial :
       /\ OGet(external_values, n).type = None
       /\ OGet(external_values, m).type # None

IsIndexed(n) == parse_multi_dimensional_parameter_name(n) # None

PlainNames == {n \in OKeys(external_values) : ~IsIndexed(n)}

IndexedNames == {n \in OKeys(external_values) : IsIndexed(n)}

BaseNames == {parse_multi_dimensional_parameter_name(n)[1] : n \in IndexedNames}

NamesOfBase(b) ==
  {n \in IndexedNames : parse_multi_dimensional_parameter_name(n)[1] = b}

IndexOf(n) == parse_multi_dimensional_parameter_name(n)[2]

\* The name of base b whose index is the k-th smallest of the indices present.
KthName(b, k) ==
  CHOOSE n \in NamesOfBase(b) :
    Cardinality({m \in NamesOfBase(b) : IndexOf(m) < IndexOf(n)}) = k - 1

\* C8: in the mapping a successful resolution returns, the resolved names
\* with an index are replaced by one entry per base name, whose value is
\* the sequence of their external values in ascending index order, holding
\* exactly the indices present, whatever the order in which the names were
\* resolved; a name without an index keeps its external value.
C8_Recombination ==
  res_pc = "done" =>
    /\ OKeys(trial_final_values) = PlainNames \cup BaseNames
    /\ \A n \in PlainNames :
         /\ OGet(trial_final_values, n).list = FALSE
         /\ OGet(trial_final_values, n).v = OGet(external_values, n)
    /\ \A b \in BaseNames :
         /\ OGet(trial_final_values, b).list = TRUE
         /\ OGet(trial_final_values, b).v =
              [k \in 1 .. Cardinality(NamesOfBase(b)) |->
                 OGet(external_values, KthName(b, k))]

\* The places of the scalars of the returned mapping: one for a single
\* value, one for each member of a sequence.
Scalars(final) ==
  {<<n, k>> \in OKeys(final) \X (1 .. MaxConfigs) :
     k <= (IF OGet(final, n).list THEN Len(OGet(final, n).v) ELSE 1)}

\* C23: the mapping returned by a successful resolution holds as many
\* scalars, single values and members of sequences together, as the raw
\* trial mapping has entries.
C23_NoValueLost ==
  res_pc = "done" =>
    Cardinality(Scalars(trial_final_values)) = Cardinality(DOMAIN pytrial)

\* C16: no step of a resolution call, of one that returns or of one that
\* raises, changes the caller's raw trial mapping or the parameter-config
\* tree; the entries resolved are taken out of the working copy only.
C16_NoAlias ==
  [][/\ pytrial' = pytrial
     /\ search_space' = search_space
     /\ DOMAIN remaining_parameters' =
          DOMAIN remaining_parameters \ OKeys(external_values')]_vars

\* A call returned with its working copy drained and the caller's mapping
\* of two entries as it was given.
C16_Witness ==
  /\ res_pc = "done"
  /\ DOMAIN remaining_parameters = {}
  /\ Cardinality(DOMAIN pytrial) = 2
  /\ Len(search_space) = MaxConfigs

\* The entries popped so far that resolved their name through a config that
\* has a parent.
ResolvedChildren ==
  {i \in DOMAIN popped :
     popped[i].resolved /\ search_space[popped[i].pc].parent # 0}

\* The name of the parent of config c.
ParentName(c) == search_space[search_space[c].parent].name

\* C19: in every state of the traversal, each parameter that was resolved
\* through a config with a parent had the parent's name resolved by an
\* earlier pop, the parent's name is an entry of the trial, and the raw
\* value resolved for it is one of the child's matching parent values.
C19_ParentGating ==
  \A i \in ResolvedChildren :
     LET c == popped[i].pc
         a == ParentName(c)
     IN /\ \E j \in 1 .. (i - 1) :
             popped[j].resolved /\ search_space[popped[j].pc].name = a
        /\ a \in DOMAIN pytrial
        /\ a \in DOMAIN parameter_values
        /\ parameter_values[a] = pytrial[a].value
        /\ parameter_values[a] \in search_space[c].matching_parent_values

\* A call returned after it resolved a child below its parent and a
\* grandchild below that child.
C19_Witness ==
  /\ res_pc = "done"
  /\ \E i, j \in ResolvedChildren :
       search_space[popped[j].pc].parent = popped[i].pc

\* The call has returned a mapping or has failed.
CallEnded == res_pc \in {"done", ValueError}

\* No config of the tree was popped twice.
PoppedOnce ==
  \A i, j \in DOMAIN popped : popped[i].pc = popped[j].pc => i = j

\* C20: for every tree and every raw trial mapping the call ends, returning
\* a mapping or failing; no config is popped twice; a pop happens only while
\* the queue and the remaining raw-trial entries are both non-empty, and the
\* call has ended only with one of the two empty.
C20_Terminates ==
  /\ []PoppedOnce
  /\ [][popped' # popped =>
         (parameter_configs # <<>> /\ DOMAIN remaining_parameters # {})]_vars
  /\ [](CallEnded =>
         (parameter_configs = <<>> \/ DOMAIN remaining_parameters = {}))
  /\ <>CallEnded

\* A call ended with entries left in the queue, after every entry of the
\* trial was resolved.
C20_Witness ==
  /\ CallEnded
  /\ parameter_configs # <<>>
  /\ popped # <<>>
  /\ DOMAIN remaining_parameters = {}

\* The name of the config of the i-th pop.
PoppedName(i) == search_space[popped[i].pc].name

\* The distance of config c from the roots.
RECURSIVE Depth(_)
Depth(c) ==
  IF search_space[c].parent = 0 THEN 0 ELSE 1 + Depth(search_space[c].parent)

\* The config of the i-th pop matched the trial when it was popped: the
\* trial has an entry of its name and, for a child, the parent's name was
\* resolved by an earlier pop to one of the child's matching values.
MatchedWhenPopped(i) ==
  LET c == popped[i].pc
  IN  /\ PoppedName(i) \in DOMAIN pytrial
      /\ search_space[c].parent # 0 =>
            /\ \E j \in 1 .. (i - 1) :
                 popped[j].resolved /\ PoppedName(j) = ParentName(c)
            /\ pytrial[ParentName(c)].value
                 \in search_space[c].matching_parent_values

\* C22: in every state of the traversal the names still to resolve and the
\* names resolved are disjoint and together are the names of the trial; the
\* raw and the external resolved values have the same names; the configs
\* are popped in breadth-first order, and a pop resolves its name exactly
\* when its config matches and no earlier pop resolved that name, so that
\* each name is resolved at most once, by the first config that matches.
C22_Bookkeeping ==
  /\ DOMAIN remaining_parameters \cap OKeys(external_values) = {}
  /\ DOMAIN remaining_parameters \cup OKeys(external_values) = DOMAIN pytrial
  /\ DOMAIN parameter_values = OKeys(external_values)
  /\ Len(external_values) = Cardinality(OKeys(external_values))
  /\ OKeys(external_values)
       = {PoppedName(i) : i \in {j \in DOMAIN popped : popped[j].resolved}}
  /\ \A i \in 2 .. Len(popped) :
       Depth(popped[i - 1].pc) <= Depth(popped[i].pc)
  /\ \A i \in DOMAIN popped :
       popped[i].resolved <=>
         /\ MatchedWhenPopped(i)
         /\ \A j \in 1 .. (i - 1) :
              PoppedName(j) = PoppedName(i) => ~popped[j].resolved

\* In the middle of a traversal, with entries resolved and entries left, a
\* name was resolved through the second config that carries it, the first
\* one not having matched.
C22_Witness ==
  /\ res_pc = "loop"
  /\ DOMAIN remaining_parameters # {}
  /\ \E i, j \in DOMAIN popped :
       /\ i < j
       /\ PoppedName(i) = PoppedName(j)
       /\ ~popped[i].resolved
       /\ popped[j].resolved

\* The outcome of the call that has ended: the failure, or the mapping
\* returned.
Outcome ==
  [raised |-> res_pc = ValueError,
   returned |-> IF res_pc = "done" THEN items(trial_final_values) ELSE {}]

\* Configs i and j are both roots, or children of one config.
Siblings(space, i, j) == i # j /\ space[i].parent = space[j].parent

\* The same tree with configs i and j declared in each other's place.
Exchange(i, j, k) == IF k = i THEN j ELSE IF k = j THEN i ELSE k

Exchanged(space, i, j) ==
  [k \in DOMAIN space |->
     [space[Exchange(i, j, k)] EXCEPT !.parent = Exchange(i, j, @)]]

\* Every declared order of the roots and of the children of each config
\* is reached by exchanging siblings; the outcome is the same after each
\* exchange.
SameAfterExchanges ==
  \A i, j \in DOMAIN search_space :
     (i < j /\ Siblings(search_space, i, j)) =>
       _pytrial_parameters(Exchanged(search_space, i, j), pytrial) = Outcome

UniqueNames == \A c \in DOMAIN search_space : OnlyConfigNamed(c)

\* C21 (as stated): the call on the tree with two sibling configs
\* exchanged in the declared order has the outcome of the call made: the
\* same mapping, or the failure.
C21_OrderIndependent ==
  CallEnded => SameAfterExchanges

\* C21 (amended): the same, for a tree in which no two configs carry the
\* same name; there the call as a function has the outcome of the call
\* made step by step.
C21_OrderIndependentUnique ==
  (CallEnded /\ UniqueNames) =>
    /\ _pytrial_parameters(search_space, pytrial) = Outcome
    /\ SameAfterExchanges

\* A call on a tree of distinct names returned a mapping with a sequence of
\* two indexed values whose configs are siblings.
C21_Witness ==
  /\ res_pc = "done"
  /\ UniqueNames
  /\ \E i, j \in DOMAIN search_space :
       /\ Siblings(search_space, i, j)
       /\ IsIndexed(search_space[i].name)
       /\ IsIndexed(search_space[j].name)
       /\ {search_space[i].name, search_space[j].name}
            \subseteq OKeys(external_values)

====
